---- MODULE Spec2Model ----
(***************************************************************************)
(* Model of rank_openai.py: the batch scoring loop (batch_gpt_scoring),    *)
(* the scoring client and its reply parser (process_batch), and the        *)
(* bullet-point driving loop (generate_bullet_points_for_top_articles).    *)
(*                                                                         *)
(* Text is modelled as sequences of one-character strings, so that the     *)
(* parser's strip / split / replace / int / re.findall are computed on     *)
(* characters as Python computes them.  A missing value (Python None, a    *)
(* pandas NaN) is the number None == -1, which no digit run parses to.     *)
(***************************************************************************)
EXTENDS Integers, Sequences, FiniteSets, TLC

\* ------------------------------------------------------------------ bounds
MaxArticles == 4     \* len(df) ranges over 0..MaxArticles in the scoring loop
MaxBatchSize == 3    \* batch_size ranges over 1..MaxBatchSize
MaxLines == 2        \* lines per reply handed to process_batch on its own
MaxRows == 6         \* rows of the collection handed to the bullet-point loop

\* ------------------------------------------------------- program constants
None == -1                         \* Python None / NaN in a score slot
ScoreMin == 1                      \* "if 1 <= score <= 10"
ScoreMax == 10
TopThreshold == 7                  \* df['GPT_Pertinence'] > 7
HeadCap == 5                       \* .head(5)
NoColumn == -2                     \* the collection has no such column
ErrorSentinel == "Error generating summary"
NoBullets == ""                    \* no Bullet_Points value in a row

\* ------------------------------------------------------------ Python text
ArticleWord == <<"A", "r", "t", "i", "c", "l", "e">>

IsSpace(c) == c \in {" ", "\n", "\t"}

IsDigit(c) == c \in {"0", "1", "2", "3", "4", "5", "6", "7", "8", "9"}

DigitVal(c) ==
  CASE c = "0" -> 0 [] c = "1" -> 1 [] c = "2" -> 2 [] c = "3" -> 3
    [] c = "4" -> 4 [] c = "5" -> 5 [] c = "6" -> 6 [] c = "7" -> 7
    [] c = "8" -> 8 [] c = "9" -> 9

RECURSIVE lstrip(_)
lstrip(s) == IF s # <<>> /\ IsSpace(Head(s)) THEN lstrip(Tail(s)) ELSE s

RECURSIVE rstrip(_)
rstrip(s) ==
  IF s # <<>> /\ IsSpace(s[Len(s)]) THEN rstrip(SubSeq(s, 1, Len(s) - 1)) ELSE s

\* str.strip()
strip(s) == rstrip(lstrip(s))

\* sep in s
contains(s, sep) == \E i \in 1..Len(s) : s[i] = sep

\* str.split(sep) for a one-character separator: splits at EVERY occurrence
RECURSIVE split(_, _)
split(s, sep) ==
  IF ~contains(s, sep) THEN <<s>>
  ELSE LET i == CHOOSE i \in 1..Len(s) :
                  s[i] = sep /\ \A j \in 1..(i - 1) : s[j] # sep
       IN <<SubSeq(s, 1, i - 1)>> \o split(SubSeq(s, i + 1, Len(s)), sep)

startswith(s, w) == Len(s) >= Len(w) /\ SubSeq(s, 1, Len(w)) = w

\* str.replace(w, ""): every non-overlapping occurrence, left to right
RECURSIVE replace_with_empty(_, _)
replace_with_empty(s, w) ==
  IF s = <<>> THEN <<>>
  ELSE IF startswith(s, w)
       THEN replace_with_empty(SubSeq(s, Len(w) + 1, Len(s)), w)
       ELSE <<Head(s)>> \o replace_with_empty(Tail(s), w)

RECURSIVE DigitsToInt(_)
DigitsToInt(ds) ==
  IF ds = <<>> THEN 0
  ELSE DigitsToInt(SubSeq(ds, 1, Len(ds) - 1)) * 10 + DigitVal(ds[Len(ds)])

\* int(s): surrounding whitespace, an optional sign, then one or more digits;
\* anything else raises ValueError (ok = FALSE)
py_int(s) ==
  LET t == strip(s)
      signed == t # <<>> /\ t[1] \in {"-", "+"}
      body == IF signed THEN Tail(t) ELSE t
      wellformed == body # <<>> /\ \A i \in 1..Len(body) : IsDigit(body[i])
  IN IF wellformed
     THEN [ok |-> TRUE,
           val |-> (IF signed /\ t[1] = "-" THEN -1 ELSE 1) * DigitsToInt(body)]
     ELSE [ok |-> FALSE, val |-> 0]

RECURSIVE TakeDigits(_)
TakeDigits(s) ==
  IF s # <<>> /\ IsDigit(Head(s)) THEN <<Head(s)>> \o TakeDigits(Tail(s)) ELSE <<>>

\* re.findall(r'\d+', s): the maximal digit runs of s, left to right
RECURSIVE re_findall_digits(_)
re_findall_digits(s) ==
  IF s = <<>> THEN <<>>
  ELSE IF IsDigit(Head(s))
       THEN LET run == TakeDigits(s)
            IN <<run>> \o re_findall_digits(SubSeq(s, Len(run) + 1, Len(s)))
       ELSE re_findall_digits(Tail(s))

\* lst[idx] = v on a Python list: a negative idx counts from the end, and an
\* idx outside -len..len-1 raises IndexError (ok = FALSE)
list_setitem(lst, idx, v) ==
  LET n == Len(lst)
      pos == IF idx < 0 THEN idx + n ELSE idx
  IN IF 0 <= pos /\ pos < n
     THEN [ok |-> TRUE, val |-> [lst EXCEPT ![pos + 1] = v]]
     ELSE [ok |-> FALSE, val |-> lst]

\* ------------------------------------------------------------ reply texts
\* the well-formed and the malformed lines a reply is built from
LinesWellFormed ==
  { ArticleWord \o <<" ", "1", ":", " ", "7">>,               \* Article 1: 7
    ArticleWord \o <<" ", "2", ":", " ", "3">>,               \* Article 2: 3
    ArticleWord \o <<" ", "1", ":", " ", "1">>,               \* lowest score
    ArticleWord \o <<" ", "2", ":", " ", "1", "0">>,          \* highest score
    ArticleWord \o <<" ", "3", ":", " ", "8", "/", "1", "0">>,\* Article 3: 8/10
    <<"2", ":", "9">>,                                        \* 2:9
    <<" ">> \o ArticleWord \o <<" ", "2", " ", ":", " ", "-", "4", " ">> }

LinesMalformed ==
  { ArticleWord \o <<" ", "3", ":", " ", "o", "k">>,          \* no digits
    ArticleWord \o <<" ", "9", ":", " ", "5">>,               \* label too large
    ArticleWord \o <<" ", "1", ":", " ", "0">>,               \* score 0
    ArticleWord \o <<" ", "1", ":", " ", "1", "1">>,          \* score 11
    ArticleWord \o <<" ", "0", ":", " ", "5">>,               \* label 0
    ArticleWord \o <<" ", "-", "1", ":", " ", "6">>,          \* label -1
    ArticleWord \o <<" ", "-", "9", ":", " ", "6">>,          \* label -9
    ArticleWord \o <<" ", "1", ":", " ", "7", ":", " ", "o", "k">>, \* two colons
    ArticleWord \o <<" ", "x", ":", " ", "5">>,               \* label not a number
    <<":", " ", "5">>,                                        \* empty label
    <<"o", "k">>,                                             \* no colon
    <<" ">> }                                                 \* blank line

Lines == LinesWellFormed \cup LinesMalformed

RECURSIVE JoinLines(_)
JoinLines(ls) ==
  IF ls = <<>> THEN <<>>
  ELSE IF Len(ls) = 1 THEN ls[1]
       ELSE ls[1] \o <<"\n">> \o JoinLines(Tail(ls))

RepliesOf(lineSet, maxLines) ==
  { JoinLines(ls) : ls \in UNION { [1..k -> lineSet] : k \in 0..maxLines } }

\* ------------------------------------------------------ the inference call
\* What client.chat.completions.create hands back: a completion whose first
\* choice carries text, a completion with no choice, one whose content is
\* None, or an exception.
ResponseOk(reply) ==
  [kind |-> "ok", content |-> reply, exc_type |-> "", message |-> ""]

ResponsesFailing ==
  { [kind |-> "raise", content |-> <<>>, exc_type |-> "APITimeoutError",
     message |-> "Request timed out."],
    [kind |-> "raise", content |-> <<>>, exc_type |-> "RateLimitError",
     message |-> "Too many requests"],
    [kind |-> "no_choices", content |-> <<>>, exc_type |-> "", message |-> ""],
    [kind |-> "null_content", content |-> <<>>, exc_type |-> "", message |-> ""] }

NoException == [type |-> "", message |-> ""]

\* the exception lines 146-156 raise before the first reply line is read
call_exception(response) ==
  CASE response.kind = "raise" ->
         [type |-> response.exc_type, message |-> response.message]
    [] response.kind = "no_choices" ->
         [type |-> "IndexError", message |-> "list index out of range"]
    [] response.kind = "null_content" ->
         [type |-> "AttributeError",
          message |-> "'NoneType' object has no attribute 'strip'"]
    [] OTHER -> NoException

\* ------------------------------------------------------------ process_batch
\* a handler that lets the underlying exception through as it is
reraise_original(batch_number, e) ==
  [type |-> e.type, prefix |-> "", batch_number |-> 0, cause |-> e.message]

\* raise OpenAIError(f"Failed to process batch {batch.batch_number}: {str(e)}")
OpenAIError(batch_number, e) ==
  [type |-> "OpenAIError", prefix |-> "Failed to process batch",
   batch_number |-> batch_number, cause |-> e.message]

\* a range check that forgets the lower end
valid_score_upper_only(score) == score <= ScoreMax

\* 1 <= score <= 10
valid_score(score) == ScoreMin <= score /\ score <= ScoreMax

\* except (ValueError, IndexError): continue
handled(exc) == exc \in {"ValueError", "IndexError"}

\* a split on the first colon that drops what follows the second one
unpack_first_two(parts) ==
  IF Len(parts) >= 2
  THEN [ok |-> TRUE, idx |-> parts[1], score |-> parts[2]]
  ELSE [ok |-> FALSE, idx |-> <<>>, score |-> <<>>]

\* idx, score = line.split(':'): unpacking wants exactly two parts
unpack_two(parts) ==
  IF Len(parts) = 2
  THEN [ok |-> TRUE, idx |-> parts[1], score |-> parts[2]]
  ELSE [ok |-> FALSE, idx |-> <<>>, score |-> <<>>]

\* the body of the inner try, for a line that contains a colon
try_line(scores, line) ==
  LET u == unpack_two(split(line, ":"))
  IN IF ~u.ok THEN [scores |-> scores, exc |-> "ValueError"]
     ELSE LET label == py_int(replace_with_empty(strip(u.idx), ArticleWord))
          IN IF ~label.ok THEN [scores |-> scores, exc |-> "ValueError"]
             ELSE LET idx == label.val - 1
                      numbers == re_findall_digits(strip(u.score))
                  IN IF numbers = <<>> THEN [scores |-> scores, exc |-> ""]
                     ELSE LET score == DigitsToInt(numbers[1])
                              w == list_setitem(scores, idx, score)
                          IN IF ~valid_score(score)
                             THEN [scores |-> scores, exc |-> ""]
                             ELSE IF w.ok THEN [scores |-> w.val, exc |-> ""]
                                  ELSE [scores |-> scores, exc |-> "IndexError"]

\* one iteration of "for line in reply.strip().split('\n')"; exc names an
\* exception that the inner handler did not catch
parse_line(scores, line) ==
  IF ~contains(line, ":") THEN [scores |-> scores, exc |-> ""]
  ELSE LET r == try_line(scores, line)
       IN IF handled(r.exc) THEN [scores |-> r.scores, exc |-> ""] ELSE r

reply_lines(reply) == split(strip(reply), "\n")

RECURSIVE parse_lines(_, _)
parse_lines(scores, lines) ==
  IF lines = <<>> THEN [scores |-> scores, exc |-> ""]
  ELSE LET r == parse_line(scores, Head(lines))
       IN IF r.exc # "" THEN r ELSE parse_lines(r.scores, Tail(lines))

empty_scores(size) == [i \in 1..size |-> None]

Returned(scores) == [raised |-> FALSE, scores |-> scores, error |-> NoException]

Raised(error) == [raised |-> TRUE, scores |-> <<>>, error |-> error]

\* process_batch as one call: the score vector, or OpenAIError
process_batch(batch, response) ==
  LET e == call_exception(response)
      r == parse_lines(empty_scores(batch.size), reply_lines(response.content))
  IN IF e # NoException THEN Raised(OpenAIError(batch.batch_number, e))
     ELSE IF r.exc # ""
          THEN Raised(OpenAIError(batch.batch_number,
                                  [type |-> r.exc, message |-> r.exc]))
          ELSE Returned(r.scores)

\* --------------------------------------------------------------- the state
VARIABLES
  pc,            \* position of the operation under way
  \* process_batch on its own
  batch,         \* the ArticleBatch handed in (size = len(batch.summaries))
  response,      \* what the inference call handed back
  lines,         \* reply.strip().split('\n')
  li,            \* 1-based position of the next line to read
  pscores,       \* process_batch's local "scores"
  presult,       \* what process_batch returned or raised
  \* batch_gpt_scoring
  n,             \* len(df); the articles are rows 1..n of the input
  batch_size,
  b,             \* the loop variable
  scores,        \* the full-length score list
  batches,       \* the ArticleBatch objects built so far
  responses,     \* what the inference call handed back, per batch
  log,           \* inference calls and rate-limit delays, in order
  result,        \* what batch_gpt_scoring returned
  \* generate_bullet_points_for_top_articles
  bdf,           \* the collection, rows in order
  top_n,
  top_articles,  \* index labels of the selected rows
  bi,            \* 1-based position in top_articles
  outcomes,      \* what happened to each selected article, in order
  bresult        \* what the function returned

pbVars == <<batch, response, lines, li, pscores, presult>>
scVars == <<n, batch_size, b, scores, batches, responses, log, result>>
bpVars == <<bdf, top_n, top_articles, bi, outcomes, bresult>>
vars == <<pc, pbVars, scVars, bpVars>>

NoResult == [raised |-> FALSE, df |-> <<>>]

PbIdle ==
  /\ batch = [size |-> 0, batch_number |-> 0]
  /\ response = ResponseOk(<<>>)
  /\ lines = <<>>
  /\ li = 0
  /\ pscores = <<>>
  /\ presult = Returned(<<>>)

ScIdle ==
  /\ n = 0
  /\ batch_size = 1
  /\ b = 0
  /\ scores = <<>>
  /\ batches = <<>>
  /\ responses = <<>>
  /\ log = <<>>
  /\ result = NoResult

BpIdle ==
  /\ bdf = <<>>
  /\ top_n = 0
  /\ top_articles = <<>>
  /\ bi = 0
  /\ outcomes = <<>>
  /\ bresult = NoResult

\* ------------------------------------------- process_batch, line by line
BatchNumbers == {1, 2}

Replies == RepliesOf(Lines, MaxLines)

InitProcessBatch ==
  /\ pc = "pb_call"
  /\ batch \in [size : 1..MaxBatchSize, batch_number : BatchNumbers]
  /\ response = ResponseOk(<<>>)
  /\ lines = <<>>
  /\ li = 0
  /\ pscores = <<>>
  /\ presult = Returned(<<>>)
  /\ ScIdle
  /\ BpIdle

\* lines 146-156: the inference call, then scores = [None] * len(summaries)
\* and the reply split into lines; any exception goes to line 172
PbCall ==
  /\ pc = "pb_call"
  /\ \E r \in {ResponseOk(t) : t \in Replies} \cup ResponsesFailing :
       LET e == call_exception(r)
       IN /\ response' = r
          /\ IF e # NoException
             THEN /\ presult' = Raised(OpenAIError(batch.batch_number, e))
                  /\ pc' = "pb_raised"
                  /\ UNCHANGED <<lines, li, pscores>>
             ELSE /\ pscores' = empty_scores(batch.size)
                  /\ lines' = reply_lines(r.content)
                  /\ li' = 1
                  /\ pc' = "pb_lines"
                  /\ UNCHANGED presult
  /\ UNCHANGED <<batch, scVars, bpVars>>

\* lines 156-168: one reply line
PbLine ==
  /\ pc = "pb_lines"
  /\ li <= Len(lines)
  /\ LET r == parse_line(pscores, lines[li])
     IN IF r.exc # ""
        THEN /\ presult' = Raised(OpenAIError(batch.batch_number,
                                              [type |-> r.exc, message |-> r.exc]))
             /\ pc' = "pb_raised"
             /\ UNCHANGED <<li, pscores>>
        ELSE /\ pscores' = r.scores
             /\ li' = li + 1
             /\ UNCHANGED <<pc, presult>>
  /\ UNCHANGED <<batch, response, lines, scVars, bpVars>>

\* line 170: return scores
PbReturn ==
  /\ pc = "pb_lines"
  /\ li > Len(lines)
  /\ presult' = Returned(pscores)
  /\ pc' = "pb_returned"
  /\ UNCHANGED <<batch, response, lines, li, pscores, scVars, bpVars>>

NextProcessBatch == PbCall \/ PbLine \/ PbReturn

SpecProcessBatch == InitProcessBatch /\ [][NextProcessBatch]_vars

\* ------------------------------------------------------ batch_gpt_scoring
\* a batch count that rounds down
n_batches_floor(len_df, size) == len_df \div size

\* math.ceil(len(df) / batch_size)
n_batches_of(len_df, size) ==
  IF len_df % size = 0 THEN len_df \div size ELSE len_df \div size + 1

Min(x, y) == IF x <= y THEN x ELSE y

\* start_idx = b * batch_size
start_idx_of(k, size) == k * size

\* end_idx = min((b + 1) * batch_size, len(df))
end_idx_of(k, size, len_df) == Min((k + 1) * size, len_df)

\* ArticleBatch(...): summaries is df.iloc[start_idx:end_idx][column].tolist(),
\* kept here by its length
article_batch(k, size, len_df) ==
  LET start_idx == start_idx_of(k, size)
      end_idx == end_idx_of(k, size, len_df)
      slice == IF end_idx > start_idx THEN end_idx - start_idx ELSE 0
  IN [size |-> slice,
      start_index |-> start_idx,
      end_index |-> end_idx,
      batch_number |-> k + 1,
      total_batches |-> n_batches_of(len_df, size)]

\* for idx, score in enumerate(batch_scores):
\*     if score is not None: scores[start_idx + idx] = score
merge_scores(all, start_idx, batch_scores) ==
  [p \in 1..Len(all) |->
     IF /\ p - start_idx \in 1..Len(batch_scores)
        /\ batch_scores[p - start_idx] # None
     THEN batch_scores[p - start_idx]
     ELSE all[p]]

\* a delay after every batch, the last one included
needs_delay_always(k, total) == TRUE

\* if b < n_batches - 1: time.sleep(RATE_LIMIT_DELAY)
needs_delay(k, total) == k < total - 1

CallEvent(k) == [ev |-> "call", batch |-> k]

SleepEvent(k) == [ev |-> "sleep", batch |-> k]

\* the input collection: rows 1..len_df, none carrying a score
input_df(len_df) == [i \in 1..len_df |-> [id |-> i, GPT_Pertinence |-> NoColumn]]

\* df['GPT_Pertinence'] = scores
annotate(df, all) == [i \in 1..Len(df) |-> [df[i] EXCEPT !.GPT_Pertinence = all[i]]]

\* sort_values('GPT_Pertinence', ascending=False) puts x before y, or leaves
\* their order open (equal scores; the default sort is not stable)
may_precede(x, y) ==
  \/ y.GPT_Pertinence = None
  \/ x.GPT_Pertinence # None /\ x.GPT_Pertinence >= y.GPT_Pertinence

\* every row order sort_values may produce: missing scores last
sort_values(df) ==
  LET k == Len(df)
      perms == { f \in [1..k -> 1..k] : \A i, j \in 1..k : i # j => f[i] # f[j] }
  IN { [i \in 1..k |-> df[f[i]]] : f \in
         { g \in perms : \A i, j \in 1..k :
                           i < j => may_precede(df[g[i]], df[g[j]]) } }

\* a handler that hands back what was scored before the failure
except_return_partial(df, e) == [raised |-> FALSE, df |-> annotate(df, scores)]

\* except Exception as e: print(...); return df
except_return(df, e) == [raised |-> FALSE, df |-> df]

ScoringLine1 == ArticleWord \o <<" ", "1", ":", " ", "7">>

ScoringLine2 == ArticleWord \o <<" ", "2", ":", " ", "9">>

ScoringLine0 == ArticleWord \o <<" ", "0", ":", " ", "5">>

\* the replies the inference call gives in the scoring loop
ScoringReplies ==
  { JoinLines(<<ScoringLine1, ScoringLine2>>),
    JoinLines(<<ScoringLine2>>),
    JoinLines(<<ArticleWord \o <<" ", "1", ":", " ", "9">>,
                ArticleWord \o <<" ", "3", ":", " ", "1", "0">>>>),
    JoinLines(<<ScoringLine0>>),
    <<>> }

ScoringResponses == {ResponseOk(t) : t \in ScoringReplies} \cup ResponsesFailing

Init ==
  /\ pc = "loop"
  /\ n \in 0..MaxArticles
  /\ batch_size \in 1..MaxBatchSize
  /\ b = 0
  /\ scores = [i \in 1..n |-> None]
  /\ batches = <<>>
  /\ responses = <<>>
  /\ log = <<>>
  /\ result = NoResult
  /\ PbIdle
  /\ BpIdle

\* lines 238-265: one pass of "for b in range(n_batches)"; an exception from
\* process_batch leaves the loop for the handler at line 274
ScoreBatch ==
  /\ pc = "loop"
  /\ b < n_batches_of(n, batch_size)
  /\ \E r \in ScoringResponses :
       LET article == article_batch(b, batch_size, n)
           got == process_batch(article, r)
       IN /\ batches' = Append(batches, article)
          /\ responses' = Append(responses, r)
          /\ IF got.raised
             THEN /\ log' = Append(log, CallEvent(article.batch_number))
                  /\ result' = except_return(input_df(n), got.error)
                  /\ pc' = "failed"
                  /\ UNCHANGED <<b, scores>>
             ELSE /\ scores' = merge_scores(scores, article.start_index, got.scores)
                  /\ log' = IF needs_delay(b, n_batches_of(n, batch_size))
                            THEN log \o <<CallEvent(article.batch_number),
                                          SleepEvent(article.batch_number)>>
                            ELSE Append(log, CallEvent(article.batch_number))
                  /\ b' = b + 1
                  /\ UNCHANGED <<pc, result>>
  /\ UNCHANGED <<n, batch_size, pbVars, bpVars>>

\* lines 268-272: annotate, sort, return
ScoreFinish ==
  /\ pc = "loop"
  /\ b >= n_batches_of(n, batch_size)
  /\ \E sorted \in sort_values(annotate(input_df(n), scores)) :
       result' = [raised |-> FALSE, df |-> sorted]
  /\ pc' = "scored"
  /\ UNCHANGED <<n, batch_size, b, scores, batches, responses, log, pbVars, bpVars>>

Next == ScoreBatch \/ ScoreFinish

Spec == Init /\ [][Next]_vars

\* ------------------------------ generate_bullet_points_for_top_articles
BulletText == "Key News Item"

\* df[df['GPT_Pertinence'] > 7]: the index labels of the rows that pass the
\* filter, in row order (a missing score compares False)
RECURSIVE filter_top(_)
filter_top(df) ==
  IF df = <<>> THEN <<>>
  ELSE (IF df[1].GPT_Pertinence # None /\ df[1].GPT_Pertinence > TopThreshold
        THEN <<df[1].id>> ELSE <<>>) \o filter_top(Tail(df))

\* .head(k)
head(seq, k) == SubSeq(seq, 1, Min(k, Len(seq)))

\* a selection that honours the requested count
select_top_requested(df, requested) == head(filter_top(df), requested)

\* top_articles = df[df['GPT_Pertinence'] > 7].head(5); requested is top_n
select_top(df, requested) == head(filter_top(df), HeadCap)

\* df['GPT_Pertinence'] raises KeyError when the column does not exist
has_score_column(df) == \A i \in 1..Len(df) : df[i].GPT_Pertinence # NoColumn

\* generate_bullet_points_summary: the trimmed reply, or the sentinel when
\* the inference call raised
generate_bullet_points_summary(call_ok) ==
  IF call_ok THEN [raised |-> FALSE, text |-> BulletText]
  ELSE [raised |-> FALSE, text |-> ErrorSentinel]

\* df.at[idx, 'Bullet_Points'] = bullet_points
set_bullets(df, idx, text) ==
  [i \in 1..Len(df) |-> IF df[i].id = idx
                          THEN [df[i] EXCEPT !.Bullet_Points = text]
                          ELSE df[i]]

\* what can happen to one selected article: all goes well; the inference
\* call raises; reading the row's content raises before the call; the
\* progress print raises after the assignment (a title that is no string)
Outcomes == {"ok", "api_error", "row_error", "print_error"}

\* lines 299-305: the body of the inner try for the row labelled idx
bullet_step(df, idx, outcome) ==
  IF outcome = "row_error" THEN [df |-> df, exc |-> "KeyError"]
  ELSE LET s == generate_bullet_points_summary(outcome # "api_error")
       IN IF s.raised THEN [df |-> df, exc |-> "APIError"]
          ELSE [df |-> set_bullets(df, idx, s.text),
                exc |-> IF outcome = "print_error" THEN "TypeError" ELSE ""]

\* an inner handler that catches nothing
loop_handled_none(exc) == FALSE

\* except Exception as e: print(...); continue
loop_handled(exc) == TRUE

BulletScores == {None, TopThreshold, TopThreshold + 1}

TopNs == {1, 10}

BulletRow(i, score) == [id |-> i, GPT_Pertinence |-> score, Bullet_Points |-> NoBullets]

InitBullets ==
  /\ pc = "bp_select"
  /\ \E k \in 0..MaxRows :
       \/ \E f \in [1..k -> BulletScores] : bdf = [i \in 1..k |-> BulletRow(i, f[i])]
       \/ k = 1 /\ bdf = <<BulletRow(1, NoColumn)>>
  /\ top_n \in TopNs
  /\ top_articles = <<>>
  /\ bi = 0
  /\ outcomes = <<>>
  /\ bresult = NoResult
  /\ PbIdle
  /\ ScIdle

\* line 292: the selection; a KeyError goes to the handler at line 312
BpSelect ==
  /\ pc = "bp_select"
  /\ IF has_score_column(bdf)
     THEN /\ top_articles' = select_top(bdf, top_n)
          /\ bi' = 1
          /\ pc' = "bp_loop"
          /\ UNCHANGED bresult
     ELSE /\ bresult' = [raised |-> FALSE, df |-> bdf]
          /\ pc' = "bp_returned"
          /\ UNCHANGED <<top_articles, bi>>
  /\ UNCHANGED <<bdf, top_n, outcomes, pbVars, scVars>>

\* lines 297-308: one selected article; an exception the inner handler does
\* not catch goes to the handler at line 312
BpArticle ==
  /\ pc = "bp_loop"
  /\ bi <= Len(top_articles)
  /\ \E o \in Outcomes :
       LET r == bullet_step(bdf, top_articles[bi], o)
       IN /\ outcomes' = Append(outcomes, o)
          /\ bdf' = r.df
          /\ IF r.exc # "" /\ ~loop_handled(r.exc)
             THEN /\ bresult' = [raised |-> FALSE, df |-> r.df]
                  /\ pc' = "bp_returned"
                  /\ UNCHANGED bi
             ELSE /\ bi' = bi + 1
                  /\ UNCHANGED <<pc, bresult>>
  /\ UNCHANGED <<top_n, top_articles, pbVars, scVars>>

\* line 310: return df
BpReturn ==
  /\ pc = "bp_loop"
  /\ bi > Len(top_articles)
  /\ bresult' = [raised |-> FALSE, df |-> bdf]
  /\ pc' = "bp_returned"
  /\ UNCHANGED <<bdf, top_n, top_articles, bi, outcomes, pbVars, scVars>>

NextBullets == BpSelect \/ BpArticle \/ BpReturn

SpecBullets == InitBullets /\ [][NextBullets]_vars

\* ============================================================== properties
\* ---------------------------------------------------- reading a reply line
NumColons(line) == Cardinality({i \in 1..Len(line) : line[i] = ":"})

\* position of the first colon (past the end when there is none)
FirstColon(line) ==
  IF NumColons(line) = 0 THEN Len(line) + 1
  ELSE CHOOSE i \in 1..Len(line) :
         line[i] = ":" /\ \A j \in 1..(i - 1) : line[j] # ":"

\* the text before the first colon, read as an article number
LabelOf(line) ==
  IF NumColons(line) = 0 THEN [ok |-> FALSE, val |-> 0]
  ELSE py_int(replace_with_empty(strip(SubSeq(line, 1, FirstColon(line) - 1)),
                                 ArticleWord))

\* the first digit run of the text after the first colon, or None
CandidateOf(line) ==
  LET runs == re_findall_digits(SubSeq(line, FirstColon(line) + 1, Len(line)))
  IN IF runs = <<>> THEN None ELSE DigitsToInt(runs[1])

\* process_batch is about to read line li
ReadingLine == pc = "pb_lines" /\ li <= Len(lines)

InScoreRange(v) == v \in 1..10

\* C3: for every reply text of a successful call process_batch does not
\* raise; its score vector always has one slot per article of the batch, each
\* slot absent or an integer in 1..10; a line whose first digit run is
\* outside 1..10 (0, 11, ...) changes no slot, and a run of 1 or of 10 on a
\* one-colon line with an in-range label is written.
C3_VectorShape ==
  /\ (response.kind = "ok" => pc # "pb_raised")
  /\ (pc \in {"pb_lines", "pb_returned"} =>
        /\ Len(pscores) = batch.size
        /\ \A k \in 1..Len(pscores) : pscores[k] = None \/ InScoreRange(pscores[k]))
  /\ (pc = "pb_returned" =>
        /\ ~presult.raised
        /\ presult.scores = pscores)

C3_LineStep ==
  (ReadingLine /\ NumColons(lines[li]) >= 1) =>
    LET v == CandidateOf(lines[li])
        k == LabelOf(lines[li])
    IN /\ (v # None /\ ~InScoreRange(v)) => pscores' = pscores
       /\ (v \in {1, 10} /\ NumColons(lines[li]) = 1 /\ k.ok /\ k.val \in 1..batch.size)
            => pscores'[k.val] = v

\* C3: the shape holds in every state and every line step keeps the range
\* rule.
C3_ScoreVector == [](C3_VectorShape) /\ [][C3_LineStep]_vars

\* C3 witness: a reply giving article 1 an 11 and article 2 a 10 has been read through:
\* the 11 left slot 1 absent, the 10 was written
C3_Witness ==
  /\ pc = "pb_returned"
  /\ batch.size = 2
  /\ Len(lines) = 2
  /\ LabelOf(lines[1]).val = 1
  /\ CandidateOf(lines[1]) = 11
  /\ LabelOf(lines[2]).val = 2
  /\ CandidateOf(lines[2]) = 10
  /\ presult.scores = <<None, 10>>

\* C4 (as claimed): a line whose label is an integer outside 1..batch size
\* leaves every slot unchanged, and a line with an in-range label k changes
\* no slot other than k.
C4_LineStep ==
  (ReadingLine /\ NumColons(lines[li]) >= 1 /\ LabelOf(lines[li]).ok) =>
    LET k == LabelOf(lines[li]).val
    IN /\ k \notin 1..batch.size => pscores' = pscores
       /\ k \in 1..batch.size =>
            \A j \in 1..Len(pscores) : j # k => pscores'[j] = pscores[j]

\* C4 (as claimed), over every step of process_batch.
C4_OutOfRangeIgnored == [][C4_LineStep]_vars

\* C8: when the inference call raises, process_batch raises OpenAIError
\* carrying the batch's batch_number and the underlying message, returns no
\* score vector, and no other exception type ever escapes.
C8_TypedError ==
  /\ (pc # "pb_call" /\ response.kind = "raise") =>
        /\ pc = "pb_raised"
        /\ presult.raised
        /\ presult.scores = <<>>
        /\ presult.error.type = "OpenAIError"
        /\ presult.error.batch_number = batch.batch_number
        /\ presult.error.cause = response.message
  /\ pc = "pb_raised" => presult.error.type = "OpenAIError"
  /\ presult.raised <=> pc = "pb_raised"

\* C8 witness: the call of batch 2 timed out and process_batch raised
C8_Witness ==
  /\ pc = "pb_raised"
  /\ response.kind = "raise"
  /\ response.exc_type = "APITimeoutError"
  /\ batch.batch_number = 2
  /\ presult.error.batch_number = 2

\* C10 (as claimed): a line is split on its first colon only; whenever the
\* label names an in-range article and the first digit run after the first
\* colon lies in 1..10, that score is written, further colons or not.
C10_FirstColonStep ==
  (ReadingLine /\ NumColons(lines[li]) >= 1) =>
    LET v == CandidateOf(lines[li])
        k == LabelOf(lines[li])
    IN (k.ok /\ k.val \in 1..batch.size /\ InScoreRange(v)) => pscores'[k.val] = v

\* C10 (as claimed), over every step of process_batch.
C10_FirstColonSplit == [][C10_FirstColonStep]_vars

\* C10 (amended): a line with exactly one colon is split into label and
\* value, and the score is written whenever the label names an in-range
\* article and the first digit run of the value lies in 1..10; a line with
\* two or more colons changes no slot.
C10_OneColonStep ==
  (ReadingLine /\ NumColons(lines[li]) >= 1) =>
    LET v == CandidateOf(lines[li])
        k == LabelOf(lines[li])
    IN /\ (NumColons(lines[li]) = 1 /\ k.ok /\ k.val \in 1..batch.size
           /\ InScoreRange(v)) => pscores'[k.val] = v
       /\ NumColons(lines[li]) >= 2 => pscores' = pscores

\* C10 (amended), over every step of process_batch.
C10_ExactlyOneColon == [][C10_OneColonStep]_vars

\* C10 witness: a one-colon line was written, then a two-colon line that
\* names article 1 and carries a 7 was skipped
C10_Witness ==
  /\ pc = "pb_lines"
  /\ li = 3
  /\ NumColons(lines[1]) = 1
  /\ LabelOf(lines[1]).val = 2
  /\ CandidateOf(lines[1]) = 3
  /\ NumColons(lines[2]) = 2
  /\ LabelOf(lines[2]).val = 1
  /\ CandidateOf(lines[2]) = 7
  /\ pscores = <<None, 3>>

\* ------------------------------------------------------- the scoring loop
\* ceil(n / batch_size), stated by its defining inequalities
ExpectedBatches ==
  CHOOSE k \in 0..n : k * batch_size >= n /\ (k = 0 \/ (k - 1) * batch_size < n)

RECURSIVE SumSizes(_)
SumSizes(bs) == IF bs = <<>> THEN 0 ELSE Head(bs).size + SumSizes(Tail(bs))

CallsIn(events) == {i \in 1..Len(events) : events[i].ev = "call"}

SleepsIn(events) == {i \in 1..Len(events) : events[i].ev = "sleep"}

\* C1: the loop builds ceil(N/B) batches; batch k covers positions
\* [(k-1)*B, min(k*B, N)), so batches are in order, contiguous, disjoint and
\* cover every article once; all but possibly the last have size B;
\* batch_number runs 1..total_batches; no article means no batch, no call.
C1_Partition ==
  /\ Len(batches) <= ExpectedBatches
  /\ \A k \in 1..Len(batches) :
       /\ batches[k].start_index = (k - 1) * batch_size
       /\ batches[k].end_index = Min(k * batch_size, n)
       /\ batches[k].size = batches[k].end_index - batches[k].start_index
       /\ batches[k].size >= 1
       /\ batches[k].batch_number = k
       /\ batches[k].total_batches = ExpectedBatches
       /\ k < ExpectedBatches => batches[k].size = batch_size
       /\ k > 1 => batches[k].start_index = batches[k - 1].end_index
  /\ pc = "scored" =>
       /\ Len(batches) = ExpectedBatches
       /\ SumSizes(batches) = n
       /\ Cardinality(CallsIn(log)) = ExpectedBatches
       /\ Len(batches) > 0 => batches[Len(batches)].end_index = n
  /\ n = 0 => batches = <<>> /\ log = <<>>

\* C1 witness: a run over several batches whose last batch is short
C1_Witness ==
  /\ pc = "scored"
  /\ Len(batches) >= 2
  /\ batches[Len(batches)].size < batch_size
  /\ batches[Len(batches)].size >= 1

\* C2: when a batch's inference call fails, batch_gpt_scoring raises nothing
\* and returns the input as it was: same rows, same order, no GPT_Pertinence
\* on any row, whatever the earlier batches scored.
C2_AllOrNothing ==
  /\ ~result.raised
  /\ (responses # <<>> /\ responses[Len(responses)].kind # "ok") =>
        /\ pc = "failed"
        /\ Len(result.df) = n
        /\ \A i \in 1..n : /\ result.df[i].id = i
                           /\ result.df[i].GPT_Pertinence = NoColumn
  /\ pc = "failed" => responses[Len(responses)].kind # "ok"

\* C2 witness: the call of a middle batch failed after an earlier batch was scored
C2_Witness ==
  /\ pc = "failed"
  /\ Len(responses) = 2
  /\ ExpectedBatches >= 3
  /\ responses[2].kind = "raise"
  /\ \E i \in 1..n : scores[i] # None

\* the score batch-local article number k is given by a reply: the value of
\* the last of its lines that names article k and carries a score in 1..10
GivenFor(reply, k) ==
  LET ls == reply_lines(reply)
      hits == {i \in 1..Len(ls) : /\ NumColons(ls[i]) = 1
                                  /\ LabelOf(ls[i]).ok
                                  /\ LabelOf(ls[i]).val = k
                                  /\ InScoreRange(CandidateOf(ls[i]))}
  IN IF hits = {} THEN None
     ELSE CandidateOf(ls[CHOOSE i \in hits : \A j \in hits : j <= i])

\* the score the article at original position p (0-based) is due
ExpectedScore(p) ==
  GivenFor(responses[(p \div batch_size) + 1].content, (p % batch_size) + 1)

\* C5 (as claimed): after a run without failure the result is a permutation
\* of the input, each article carries exactly the score its own batch's reply
\* gave for its batch-local number (absent if none), and the rows are in
\* descending order of score.
C5_ScoresAligned ==
  pc = "scored" =>
    /\ Len(result.df) = n
    /\ {result.df[i].id : i \in 1..n} = 1..n
    /\ \A i \in 1..n :
         result.df[i].GPT_Pertinence = ExpectedScore(result.df[i].id - 1)
    /\ \A i, j \in 1..n :
         (i < j /\ result.df[i].GPT_Pertinence # None
                /\ result.df[j].GPT_Pertinence # None)
           => result.df[i].GPT_Pertinence >= result.df[j].GPT_Pertinence

\* C9: the calls are made one per batch in increasing batch order, with one
\* delay after every batch but the last: the log reads call 1, sleep 1,
\* call 2, sleep 2, ..., a full run ends on call n with n calls and n - 1
\* delays, and a failed call is the last event ever logged.
C9_CallsAndDelays ==
  /\ \A i \in 1..Len(log) :
       IF i % 2 = 1 THEN log[i] = CallEvent((i + 1) \div 2)
       ELSE log[i] = SleepEvent(i \div 2)
  /\ Cardinality(CallsIn(log)) = Len(responses)
  /\ pc = "scored" =>
       /\ Cardinality(CallsIn(log)) = ExpectedBatches
       /\ Cardinality(SleepsIn(log)) = (IF ExpectedBatches = 0 THEN 0
                                        ELSE ExpectedBatches - 1)
       /\ log # <<>> => log[Len(log)].ev = "call"
  /\ pc = "loop" /\ log # <<>> /\ log[Len(log)].ev = "call" => b = ExpectedBatches
  /\ \A j \in 1..Len(responses) :
       responses[j].kind # "ok" => /\ j = Len(responses)
                                   /\ pc = "failed"
                                   /\ log[Len(log)] = CallEvent(j)

\* C9 witness: a full run over three batches: three calls, two delays
C9_Witness ==
  /\ pc = "scored"
  /\ ExpectedBatches = 3
  /\ Len(log) = 5

\* -------------------------------------------------- the bullet-point loop
\* positions of the rows whose score is strictly greater than 7
Qualifying ==
  {i \in 1..Len(bdf) : bdf[i].GPT_Pertinence \notin {None, NoColumn}
                       /\ bdf[i].GPT_Pertinence > 7}

Selected == {top_articles[j] : j \in 1..Len(top_articles)}

BulletsOf(idx) == bdf[CHOOSE i \in 1..Len(bdf) : bdf[i].id = idx].Bullet_Points

C7_FaultIsolation ==
  /\ ~bresult.raised
  /\ Len(outcomes) <= Len(top_articles)
  /\ (pc = "bp_returned" /\ has_score_column(bdf)) =>
        /\ Len(outcomes) = Len(top_articles)
        /\ bresult.df = bdf
  /\ \A j \in 1..Len(outcomes) :
       /\ outcomes[j] \in {"ok", "print_error"} =>
            BulletsOf(top_articles[j]) = BulletText
       /\ outcomes[j] = "api_error" =>
            BulletsOf(top_articles[j]) = "Error generating summary"

\* C7 witness: of three selected articles the first failed before its call and the second
\* in its call; the third still got its bullet points
C7_Witness ==
  /\ pc = "bp_returned"
  /\ Len(top_articles) = 3
  /\ outcomes = <<"row_error", "api_error", "ok">>
  /\ BulletsOf(top_articles[1]) = NoBullets
  /\ BulletsOf(top_articles[2]) = ErrorSentinel
  /\ BulletsOf(top_articles[3]) = BulletText

====
